---- MODULE Spec2Model ----
(***************************************************************************)
(* A model of requests_curl/request.py: class CURLRequest, which derives   *)
(* the pycurl option dictionary of one prepared HTTP request.              *)
(*                                                                         *)
(* Python values are records with a "type" field.  A str on which the code *)
(* works character by character (the method, header names and values, the  *)
(* body) is a sequence of one-character strings; a str the code only       *)
(* passes along (the url, file system paths, cipher names) is a TLA+       *)
(* string.  A dict is a function from its keys; the pycurl option keys are *)
(* the strings of their names, pairwise different as pycurl's are.         *)
(* Python 3 is modelled: bytes is not str.  Seconds are exact rationals,   *)
(* counted in ticks of 1/TicksPerSecond s; binary floating point rounding  *)
(* is not modelled.                                                        *)
(***************************************************************************)
EXTENDS Integers, Sequences, FiniteSets, TLC

VARIABLES
    _request,       \* self._request: the prepared request (never reassigned)
    _timeout,       \* self._timeout
    _cert,          \* self._cert
    _verify,        \* self._verify
    _verbose,       \* self._verbose
    cookies,        \* self.cookies, a public attribute
    _CIPHER_LIST,   \* self._CIPHER_LIST, memo of set_cipher
    _curl_options,  \* self._curl_options, memo of options
    _body_stream,   \* self._body_stream
    dirs,           \* the file system: the paths that are directories
    returned,       \* what the last access to the options property returned
    derived_env     \* history: <<cookies, dirs>> when _curl_options was derived

vars ==
    <<_request, _timeout, _cert, _verify, _verbose, cookies, _CIPHER_LIST,
      _curl_options, _body_stream, dirs, returned, derived_env>>

-----------------------------------------------------------------------------
(* Bounds of the model.                                                    *)

\* timeouts range over 0 .. MaxTicks ticks (and a few whole seconds)
MaxTicks == 3
\* the resolution of time: one tick is 1/TicksPerSecond of a second
TicksPerSecond == 2000

-----------------------------------------------------------------------------
(* Python values.                                                          *)

None == [type |-> "NoneType"]
Bool(b) == [type |-> "bool", val |-> b]
Str(s) == [type |-> "str", val |-> s]
Bytes(s) == [type |-> "bytes", val |-> s]
PyInt(n) == [type |-> "int", val |-> n]
\* a float of n ticks, that is n / TicksPerSecond
Float(n) == [type |-> "float", val |-> n]
Tuple(t) == [type |-> "tuple", val |-> t]
List(t) == [type |-> "list", val |-> t]
Dict(d) == [type |-> "dict", val |-> d]
\* a constant of the pycurl module, by its name
Pycurl(name) == [type |-> "pycurl", val |-> name]
\* an object with identity id; len is its __len__(), or -1 when its class
\* defines neither __len__ nor __bool__
Object(class, id, len) == [type |-> class, val |-> [id |-> id, len |-> len]]
\* six.BytesIO(b): a new object, which is none of the caller's (their ids are
\* positive)
BytesIO(b) == [type |-> "BytesIO", val |-> [id |-> 0, len |-> -1, data |-> b]]
\* the bound method o.name
BoundMethod(o, name) == [type |-> "method", val |-> [self |-> o, name |-> name]]

\* Python's truth value testing
Truthy(v) ==
    CASE v.type = "NoneType" -> FALSE
      [] v.type = "bool" -> v.val
      [] v.type \in {"int", "float"} -> v.val # 0
      [] v.type \in {"str", "bytes", "tuple", "list"} -> Len(v.val) > 0
      [] OTHER -> v.val.len # 0

\* hasattr(v, "read"): of the classes modelled, the file-like ones have it
HasRead(v) == v.type \in {"file", "BytesIO"}

\* isinstance(v, six.string_types)
IsString(v) == v.type = "str"

\* the printable ASCII characters, codes 32 to 126 (the grave accent, code 96,
\* is written "<grave>": a TLA+ string cannot hold it)
Ascii ==
    <<" ", "!", "\"", "#", "$", "%", "&", "'", "(", ")", "*", "+", ",", "-",
    ".", "/", "0", "1", "2", "3", "4", "5", "6", "7", "8", "9", ":", ";", "<",
    "=", ">", "?", "@", "A", "B", "C", "D", "E", "F", "G", "H", "I", "J", "K",
    "L", "M", "N", "O", "P", "Q", "R", "S", "T", "U", "V", "W", "X", "Y", "Z",
    "[", "\\", "]", "^", "_", "<grave>", "a", "b", "c", "d", "e", "f", "g", "h", "i",
    "j", "k", "l", "m", "n", "o", "p", "q", "r", "s", "t", "u", "v", "w", "x",
    "y", "z", "{", "|", "}", "~">>

Ord(c) == 31 + (CHOOSE i \in 1..Len(Ascii) : Ascii[i] = c)
Chr(n) == Ascii[n - 31]

\* str.upper() and str.lower() on ASCII text
UpperChar(c) == IF Ord(c) >= Ord("a") /\ Ord(c) <= Ord("z") THEN Chr(Ord(c) - 32) ELSE c
LowerChar(c) == IF Ord(c) >= Ord("A") /\ Ord(c) <= Ord("Z") THEN Chr(Ord(c) + 32) ELSE c
upper(s) == [i \in 1..Len(s) |-> UpperChar(s[i])]
lower(s) == [i \in 1..Len(s) |-> LowerChar(s[i])]

\* s.startswith(prefix)
startswith(s, prefix) ==
    /\ Len(prefix) <= Len(s)
    /\ \A i \in 1..Len(prefix) : s[i] = prefix[i]

\* int(x) of a float of num / den: truncation towards zero
Trunc(num, den) == IF num >= 0 THEN num \div den ELSE -((-num) \div den)

\* six.ensure_binary: bytes as they are, text encoded (ASCII text here), and
\* a TypeError for anything else
ensure_binary(v) ==
    IF v.type = "bytes" THEN v
    ELSE IF v.type = "str" THEN Bytes([i \in 1..Len(v.val) |-> Ord(v.val[i])])
    ELSE [type |-> "TypeError", val |-> v.type]

\* dict.update
Update(d, e) ==
    [k \in DOMAIN d \cup DOMAIN e |-> IF k \in DOMAIN e THEN e[k] ELSE d[k]]

\* headers.get(name, default) on an ordered mapping, a sequence of
\* <<name, value>> with distinct names
HeaderGet(headers, name, default) ==
    IF \E i \in 1..Len(headers) : headers[i][1] = name
    THEN headers[CHOOSE i \in 1..Len(headers) : headers[i][1] = name][2]
    ELSE default

RECURSIVE Join(_, _)
\* sep.join(list) on TLA+ strings
Join(sep, list) ==
    IF list = <<>> THEN ""
    ELSE IF Len(list) = 1 THEN list[1]
    ELSE list[1] \o sep \o Join(sep, Tail(list))

-----------------------------------------------------------------------------
(* The derivation steps of CURLRequest.                                    *)

CONTENT_TYPE ==
    <<"C", "o", "n", "t", "e", "n", "t", "-", "T", "y", "p", "e">>
MULTIPART_MARKER ==
    <<"m", "u", "l", "t", "i", "p", "a", "r", "t", "/", "f", "o", "r", "m", "-",
    "d", "a", "t", "a", ";">>
HEAD == <<"H", "E", "A", "D">>
GET == <<"G", "E", "T">>

\* requests.adapters.DEFAULT_CA_BUNDLE_PATH
DEFAULT_CA_BUNDLE_PATH == Str("site-packages/certifi/cacert.pem")

\* os.path.isdir(path) on the file system fs
isdir(fs, path) == path.val \in fs

\* use_chunked_upload
use_chunked_upload(request) == HasRead(request.body)

CIPHER_LIST ==
    <<"TLS_AES_128_GCM_SHA256", "TLS_AES_256_GCM_SHA384", "TLS_CHACHA20_POLY1305_SHA256",
      "ECDHE-ECDSA-AES128-GCM-SHA256", "ECDHE-RSA-AES128-GCM-SHA256", "ECDHE-ECDSA-AES256-GCM-SHA384",
      "ECDHE-RSA-AES256-GCM-SHA384", "ECDHE-ECDSA-CHACHA20-POLY1305", "ECDHE-RSA-CHACHA20-POLY1305",
      "ECDHE-RSA-AES128-SHA", "ECDHE-RSA-AES256-SHA", "AES128-GCM-SHA256", "AES256-GCM-SHA384",
      "AES128-SHA,AES256-SHA">>

\* a mutant of set_cipher: the names are joined with OpenSSL's colon
set_cipher_colon(cipher_list) ==
    LET memo == IF cipher_list = None THEN Str(Join(":", CIPHER_LIST)) ELSE cipher_list
    IN  [ret |-> memo, _CIPHER_LIST |-> memo]

\* the set_cipher property: what it returns and the memo it leaves
set_cipher(cipher_list) ==
    LET memo == IF cipher_list = None THEN Str(Join(",", CIPHER_LIST)) ELSE cipher_list
    IN  [ret |-> memo, _CIPHER_LIST |-> memo]

build_headers_option(request) ==
    LET req_headers == request.headers
        headers == [i \in 1..Len(req_headers) |->
                        Str(req_headers[i][1] \o <<":", " ">> \o req_headers[i][2])]
    IN  [HTTPHEADER |-> List(headers)]

\* a mutant of build_http_method_options: the method is not uppercased
build_http_method_options_as_given(request) ==
    LET method == IF Truthy(request.method) THEN request.method ELSE Str(GET)
    IN  IF method = Str(GET) THEN <<>>
        ELSE [CUSTOMREQUEST |-> method]

build_http_method_options(request) ==
    LET method == IF Truthy(request.method) THEN Str(upper(request.method.val)) ELSE Str(GET)
    IN  IF method = Str(GET) THEN <<>>
        ELSE [CUSTOMREQUEST |-> method]

\* a mutant of body_flags: the third condition never holds
body_flags_without_third(request) ==
    LET content_type == lower(HeaderGet(request.headers, CONTENT_TYPE, <<>>))
    IN  <<request.body.type = "str",
          request.body.type = "bytes" /\ ~startswith(content_type, MULTIPART_MARKER),
          FALSE>>

\* the three conditions of the buffered path
body_flags(request) ==
    LET content_type == lower(HeaderGet(request.headers, CONTENT_TYPE, <<>>))
    IN  <<request.body.type = "str",
          request.body.type = "bytes" /\ ~startswith(content_type, MULTIPART_MARKER),
          ~HasRead(request.body)>>

\* a mutant of build_body_options: the stream is a local, not kept on the
\* instance
build_body_options_local_stream(request, body_stream) ==
    IF request.method = Str(HEAD)
    THEN [ret |-> [NOBODY |-> Bool(TRUE)], _body_stream |-> body_stream]
    ELSE IF Truthy(request.body)
    THEN LET flags == body_flags(request)
             is_encoded_form == \E i \in 1..Len(flags) : flags[i]
         IN  IF is_encoded_form
             THEN [ret |-> [POSTFIELDS |-> request.body], _body_stream |-> body_stream]
             ELSE LET stream == IF HasRead(request.body) THEN request.body
                                ELSE BytesIO(ensure_binary(request.body))
                  IN  [ret |-> [UPLOAD |-> Bool(TRUE),
                                READFUNCTION |-> BoundMethod(stream, "read")],
                       _body_stream |-> body_stream]
    ELSE [ret |-> <<>>, _body_stream |-> body_stream]

\* build_body_options: what it returns and the stream handle it leaves
build_body_options(request, body_stream) ==
    IF request.method = Str(HEAD)
    THEN [ret |-> [NOBODY |-> Bool(TRUE)], _body_stream |-> body_stream]
    ELSE IF Truthy(request.body)
    THEN LET flags == body_flags(request)
             is_encoded_form == \E i \in 1..Len(flags) : flags[i]
         IN  IF is_encoded_form
             THEN [ret |-> [POSTFIELDS |-> request.body], _body_stream |-> body_stream]
             ELSE LET stream == IF HasRead(request.body) THEN request.body
                                ELSE BytesIO(ensure_binary(request.body))
                  IN  [ret |-> [UPLOAD |-> Bool(TRUE),
                                READFUNCTION |-> BoundMethod(stream, "read")],
                       _body_stream |-> stream]
    ELSE [ret |-> <<>>, _body_stream |-> body_stream]

\* a mutant of build_timeout_options: the total is the sum of the two
\* truncated parts
build_timeout_options_sum_of_ms(timeout) ==
    IF timeout.type \in {"tuple", "list"}
    THEN LET conn_ms == Trunc(1000 * timeout.val[1].val, TicksPerSecond)
             read_ms == Trunc(1000 * timeout.val[2].val, TicksPerSecond)
         IN  [TIMEOUT_MS |-> PyInt(conn_ms + read_ms),
              CONNECTTIMEOUT_MS |-> PyInt(conn_ms)]
    ELSE IF Truthy(timeout)
    THEN [TIMEOUT_MS |-> PyInt(Trunc(1000 * timeout.val, TicksPerSecond))]
    ELSE <<>>

build_timeout_options(timeout) ==
    IF timeout.type \in {"tuple", "list"}
    THEN LET conn_timeout == timeout.val[1]
             read_timeout == timeout.val[2]
             total_timeout == conn_timeout.val + read_timeout.val
         IN  [TIMEOUT_MS |-> PyInt(Trunc(1000 * total_timeout, TicksPerSecond)),
              CONNECTTIMEOUT_MS |-> PyInt(Trunc(1000 * conn_timeout.val, TicksPerSecond))]
    ELSE IF Truthy(timeout)
    THEN [TIMEOUT_MS |-> PyInt(Trunc(1000 * timeout.val, TicksPerSecond))]
    ELSE <<>>

\* a mutant of build_ca_options: the two CA options are taken for each other
build_ca_options_swapped(verify, fs) ==
    IF Truthy(verify)
    THEN LET ca_value == IF IsString(verify) THEN verify ELSE DEFAULT_CA_BUNDLE_PATH
             ca_opt == IF isdir(fs, ca_value) THEN "CAINFO" ELSE "CAPATH"
         IN  Update([SSL_VERIFYHOST |-> PyInt(2), SSL_VERIFYPEER |-> PyInt(2)],
                    [k \in {ca_opt} |-> ca_value])
    ELSE [SSL_VERIFYHOST |-> PyInt(0), SSL_VERIFYPEER |-> PyInt(0)]

build_ca_options(verify, fs) ==
    IF Truthy(verify)
    THEN LET ca_value == IF IsString(verify) THEN verify ELSE DEFAULT_CA_BUNDLE_PATH
             ca_opt == IF isdir(fs, ca_value) THEN "CAPATH" ELSE "CAINFO"
         IN  Update([SSL_VERIFYHOST |-> PyInt(2), SSL_VERIFYPEER |-> PyInt(2)],
                    [k \in {ca_opt} |-> ca_value])
    ELSE [SSL_VERIFYHOST |-> PyInt(0), SSL_VERIFYPEER |-> PyInt(0)]

\* a mutant of build_cert_options: the pair is unpacked as (key, cert)
build_cert_options_swapped(cert) ==
    IF Truthy(cert)
    THEN IF IsString(cert)
         THEN [SSLCERT |-> cert]
         ELSE [SSLCERT |-> cert.val[2], SSLKEY |-> cert.val[1]]
    ELSE <<>>

build_cert_options(cert) ==
    IF Truthy(cert)
    THEN IF IsString(cert)
         THEN [SSLCERT |-> cert]
         ELSE [SSLCERT |-> cert.val[1], SSLKEY |-> cert.val[2]]
    ELSE <<>>

\* the dict literal _build_curl_options starts from
static_options(self, cipher) ==
    [URL |-> self._request.url,
     SSL_CIPHER_LIST |-> cipher,
     HTTP_VERSION |-> Pycurl("CURL_HTTP_VERSION_2_0"),
     SSLVERSION |-> Pycurl("SSLVERSION_TLSv1_2"),
     SSL_ENABLE_ALPS |-> PyInt(1),
     SSL_CERT_COMPRESSION |-> Str("brotli"),
     HTTP2_PSEUDO_HEADERS_ORDER |-> Str("masp"),
     SSL_ENABLE_NPN |-> PyInt(0),
     VERBOSE |-> self._verbose,
     FOLLOWLOCATION |-> PyInt(1),
     COOKIEJAR |-> self.cookies]

\* _build_curl_options on the instance self and the file system fs: the dict it
\* returns and the attributes the calls it makes leave
_build_curl_options(self, fs) ==
    LET cipher == set_cipher(self._CIPHER_LIST)
        body == build_body_options(self._request, self._body_stream)
        o0 == static_options(self, cipher.ret)
        o1 == Update(o0, build_headers_option(self._request))
        o2 == Update(o1, body.ret)
        o3 == Update(o2, build_http_method_options(self._request))
        o4 == Update(o3, build_timeout_options(self._timeout))
        o5 == Update(o4, build_ca_options(self._verify, fs))
        o6 == Update(o5, build_cert_options(self._cert))
    IN  [ret |-> Dict(o6), _body_stream |-> body._body_stream,
         _CIPHER_LIST |-> cipher._CIPHER_LIST]

\* the instance, as one record
Self ==
    [_request |-> _request, _timeout |-> _timeout, _cert |-> _cert,
     _verify |-> _verify, _verbose |-> _verbose, cookies |-> cookies,
     _CIPHER_LIST |-> _CIPHER_LIST, _curl_options |-> _curl_options,
     _body_stream |-> _body_stream]

-----------------------------------------------------------------------------
(* The inputs: prepared requests, policies and file systems.               *)

CtMultipart ==
    <<"m", "u", "l", "t", "i", "p", "a", "r", "t", "/", "f", "o", "r", "m", "-",
    "d", "a", "t", "a", ";", " ", "b", "o", "u", "n", "d", "a", "r", "y", "=",
    "x">>
CtMultipartMixed ==
    <<"M", "u", "l", "t", "i", "p", "a", "r", "t", "/", "F", "o", "r", "m", "-",
    "D", "a", "t", "a", ";", " ", "b", "o", "u", "n", "d", "a", "r", "y", "=",
    "x">>
CtJson ==
    <<"a", "p", "p", "l", "i", "c", "a", "t", "i", "o", "n", "/", "j", "s", "o",
    "n">>
ACCEPT == <<"A", "c", "c", "e", "p", "t">>
ANY == <<"*", "/", "*">>

Methods ==
    {None, Str(<<>>), Str(<<"g", "e", "t">>), Str(GET), Str(<<"G", "e", "t">>),
     Str(<<"h", "e", "a", "d">>), Str(HEAD), Str(<<"P", "O", "S", "T">>),
     Str(<<"p", "u", "t">>)}

HeaderSets ==
    {<<>>,
     <<<<CONTENT_TYPE, CtMultipart>>>>,
     <<<<ACCEPT, ANY>>, <<CONTENT_TYPE, CtMultipartMixed>>>>,
     <<<<CONTENT_TYPE, CtJson>>, <<ACCEPT, ANY>>>>}

\* absent, text, bytes, file-like objects (without __len__, of length 0, of
\* length 2) and a generator
Bodies ==
    {None, Str(<<>>), Str(<<"a", "=", "1">>), Bytes(<<>>), Bytes(<<45, 45, 120>>),
     Object("file", 1, -1), Object("file", 2, 0), Object("file", 3, 2),
     Object("generator", 4, -1)}

Requests ==
    [url : {Str("https://example.org/")}, method : Methods, headers : HeaderSets,
     body : Bodies]

Seconds(n) == Float(n * TicksPerSecond)
Ticks == 0..MaxTicks
Timeouts ==
    {None} \cup {Float(t) : t \in Ticks}
           \cup {Tuple(<<Float(c), Float(r)>>) : c \in Ticks, r \in Ticks}
           \cup {Float((7 * TicksPerSecond) \div 2), Tuple(<<Seconds(2), Seconds(5)>>),
                 List(<<Seconds(1), Float(1)>>)}

CA_DIR == Str("/etc/ssl/certs")
Paths == {DEFAULT_CA_BUNDLE_PATH.val, CA_DIR.val}
Verifies == {None, Bool(FALSE), Bool(TRUE), Str(""), CA_DIR}

CERT == Str("/a/cert.pem")
KEY == Str("/a/key.pem")
Certs == {None, Str(""), CERT, Tuple(<<CERT, KEY>>)}

Verboses == {PyInt(0), PyInt(1)}
CookieJars == {Str(""), Str("/tmp/cookies.txt")}

\* a few requests and policies, to combine with every policy and request
SomeRequests ==
    {[url |-> Str("https://example.org/"), method |-> Str(GET), headers |-> <<>>,
      body |-> None],
     [url |-> Str("https://example.org/"), method |-> Str(<<"p", "u", "t">>),
      headers |-> <<<<CONTENT_TYPE, CtMultipart>>>>, body |-> Object("file", 1, -1)]}
SomePolicies ==
    {[timeout |-> None, verify |-> None, cert |-> None, verbose |-> PyInt(0)],
     [timeout |-> Tuple(<<Float(1), Float(2)>>), verify |-> Bool(TRUE),
      cert |-> Tuple(<<CERT, KEY>>), verbose |-> PyInt(1)],
     [timeout |-> Float(3), verify |-> CA_DIR, cert |-> CERT, verbose |-> PyInt(0)]}

-----------------------------------------------------------------------------
(* The instance after CURLRequest(request, timeout, verify, cert, verbose). *)

\* __init__
Constructed(request, timeout, verify, cert, verbose) ==
    /\ _CIPHER_LIST = None
    /\ _request = request
    /\ _timeout = timeout
    /\ _cert = cert
    /\ _verify = verify
    /\ _curl_options = None
    /\ _body_stream = None
    /\ _verbose = verbose
    /\ cookies = Str("")

\* every request, under a few policies
InitRequests ==
    /\ \E request \in Requests, p \in SomePolicies :
          Constructed(request, p.timeout, p.verify, p.cert, p.verbose)
    /\ dirs = {CA_DIR.val}

\* every timeout, certificate and verbosity, for a few requests
InitPolicies ==
    /\ \E request \in SomeRequests, timeout \in Timeouts, cert \in Certs,
          verbose \in Verboses :
          Constructed(request, timeout, Bool(TRUE), cert, verbose)
    /\ dirs = {CA_DIR.val}

\* every verify value on every file system, for a few requests
InitVerify ==
    /\ \E request \in SomeRequests, verify \in Verifies, cert \in Certs :
          Constructed(request, None, verify, cert, PyInt(0))
    /\ dirs \in SUBSET Paths

Init ==
    /\ \/ InitRequests
       \/ InitPolicies
       \/ InitVerify
    /\ returned = None
    /\ derived_env = None

-----------------------------------------------------------------------------
(* The operations on an instance, and its environment.                     *)

\* a mutant of options: the options are derived at every access
options_always_derived ==
    /\ LET built == _build_curl_options(Self, dirs)
       IN  /\ _curl_options' = built.ret
           /\ _body_stream' = built._body_stream
           /\ _CIPHER_LIST' = built._CIPHER_LIST
           /\ derived_env' = Tuple(<<cookies, dirs>>)
    /\ returned' = _curl_options'
    /\ UNCHANGED <<_request, _timeout, _cert, _verify, _verbose, cookies, dirs>>

\* reading the options property
options ==
    /\ IF _curl_options = None
       THEN LET built == _build_curl_options(Self, dirs)
            IN  /\ _curl_options' = built.ret
                /\ _body_stream' = built._body_stream
                /\ _CIPHER_LIST' = built._CIPHER_LIST
                /\ derived_env' = Tuple(<<cookies, dirs>>)
       ELSE UNCHANGED <<_curl_options, _body_stream, _CIPHER_LIST, derived_env>>
    /\ returned' = _curl_options'
    /\ UNCHANGED <<_request, _timeout, _cert, _verify, _verbose, cookies, dirs>>

\* reading the set_cipher property
read_set_cipher ==
    /\ _CIPHER_LIST' = set_cipher(_CIPHER_LIST)._CIPHER_LIST
    /\ UNCHANGED <<_request, _timeout, _cert, _verify, _verbose, cookies,
                   _curl_options, _body_stream, dirs, returned, derived_env>>

\* a call of build_body_options from outside
call_build_body_options ==
    /\ _body_stream' = build_body_options(_request, _body_stream)._body_stream
    /\ UNCHANGED <<_request, _timeout, _cert, _verify, _verbose, cookies,
                   _CIPHER_LIST, _curl_options, dirs, returned, derived_env>>

\* the caller sets the cookie jar location: request.cookies = jar
set_cookies ==
    /\ \E jar \in CookieJars : cookies' = jar
    /\ UNCHANGED <<_request, _timeout, _cert, _verify, _verbose, _CIPHER_LIST,
                   _curl_options, _body_stream, dirs, returned, derived_env>>

\* the file system changes: a path becomes a directory, or stops being one
fs_change ==
    /\ \E path \in Paths :
          dirs' = IF path \in dirs THEN dirs \ {path} ELSE dirs \cup {path}
    /\ UNCHANGED <<_request, _timeout, _cert, _verify, _verbose, cookies,
                   _CIPHER_LIST, _curl_options, _body_stream, returned, derived_env>>

Next ==
    \/ options
    \/ read_set_cipher
    \/ call_build_body_options
    \/ set_cookies
    \/ fs_change

Spec == Init /\ [][Next]_vars

-----------------------------------------------------------------------------
(* What the claims speak of.                                               *)

\* the options have been derived
Built == _curl_options # None
\* the derived dict
Opts == _curl_options.val
Has(key) == key \in DOMAIN Opts
\* the file system and the cookie jar location when the options were derived
DerivedDirs == derived_env.val[2]
DerivedCookies == derived_env.val[1]
\* the Content-Type the request declares, as written
DeclaredContentType == HeaderGet(_request.headers, CONTENT_TYPE, <<>>)
IsHeadVerb == Truthy(_request.method) /\ upper(_request.method.val) = HEAD

\* C1 (as stated): a non-empty bytes body under a Content-Type starting with
\* "multipart/form-data;", with a method other than HEAD, is streamed: the
\* options hold UPLOAD and READFUNCTION and no POSTFIELDS.
C1_MultipartBytesStreamed ==
    (/\ Built
     /\ ~IsHeadVerb
     /\ _request.body.type = "bytes" /\ Truthy(_request.body)
     /\ startswith(DeclaredContentType, MULTIPART_MARKER))
    => /\ Has("UPLOAD") /\ Has("READFUNCTION")
       /\ ~Has("POSTFIELDS")

\* C2 (as stated): when the method uppercased is HEAD, whatever the body, the
\* options hold none of POSTFIELDS, UPLOAD, READFUNCTION and no stream handle
\* is stored on the instance.
C2_HeadHasNoBody ==
    (Built /\ IsHeadVerb)
    => /\ ~Has("POSTFIELDS") /\ ~Has("UPLOAD") /\ ~Has("READFUNCTION")
       /\ _body_stream = None

\* the verb of the claims: the method uppercased, GET when it is absent
StatedVerb == IF _request.method = None THEN GET ELSE upper(_request.method.val)
\* the verb the code derives: GET also for an empty method
DerivedVerb == IF Truthy(_request.method) THEN upper(_request.method.val) ELSE GET

\* C3 (as stated): the options hold CUSTOMREQUEST exactly when the method
\* uppercased is not GET, an absent method counting as GET, and its value is
\* the uppercased method.
C3_CustomRequestAsStated ==
    Built => /\ Has("CUSTOMREQUEST") <=> StatedVerb # GET
             /\ Has("CUSTOMREQUEST") => Opts.CUSTOMREQUEST = Str(StatedVerb)

\* C3 (amended): the options hold CUSTOMREQUEST exactly when the method
\* uppercased is not GET, an absent or empty method counting as GET; its value
\* is the uppercased method, and no later step of the merge removes or
\* replaces it, upload directives or not.
C3_CustomRequest ==
    Built => /\ Has("CUSTOMREQUEST") <=> DerivedVerb # GET
             /\ Has("CUSTOMREQUEST") => Opts.CUSTOMREQUEST = Str(DerivedVerb)

\* a lowercase put of a stream: upload directives and the method directive
C3_Witness ==
    /\ Built
    /\ _request.method = Str(<<"p", "u", "t">>)
    /\ Has("UPLOAD") /\ Has("READFUNCTION")
    /\ Has("CUSTOMREQUEST") /\ Opts.CUSTOMREQUEST = Str(<<"P", "U", "T">>)

\* the empty method, which the code takes for GET
C3_WitnessEmptyMethod ==
    /\ Built
    /\ _request.method = Str(<<>>)
    /\ ~Has("CUSTOMREQUEST")

\* the CA path the code resolves verify to
ResolvedCa == IF IsString(_verify) THEN _verify ELSE DEFAULT_CA_BUNDLE_PATH

\* C4: a falsy verify gives SSL_VERIFYHOST = SSL_VERIFYPEER = 0 and neither
\* CAPATH nor CAINFO; a truthy verify gives both as 2 and exactly one of CAPATH
\* and CAINFO, holding verify itself when it is a string and the default CA
\* bundle path otherwise, under CAPATH exactly when that path was a directory
\* when the options were derived.
C4_Verification ==
    Built =>
        /\ Has("SSL_VERIFYHOST") /\ Has("SSL_VERIFYPEER")
        /\ IF Truthy(_verify)
           THEN /\ Opts.SSL_VERIFYHOST = PyInt(2) /\ Opts.SSL_VERIFYPEER = PyInt(2)
                /\ Has("CAPATH") # Has("CAINFO")
                /\ Has("CAPATH") <=> isdir(DerivedDirs, ResolvedCa)
                /\ Has("CAPATH") => Opts.CAPATH = ResolvedCa
                /\ Has("CAINFO") => Opts.CAINFO = ResolvedCa
           ELSE /\ Opts.SSL_VERIFYHOST = PyInt(0) /\ Opts.SSL_VERIFYPEER = PyInt(0)
                /\ ~Has("CAPATH") /\ ~Has("CAINFO")

\* verify names a directory, which has stopped being one since the options
\* were derived
C4_Witness ==
    /\ Built
    /\ _verify = CA_DIR
    /\ Has("CAPATH") /\ Opts.CAPATH = Str("/etc/ssl/certs")
    /\ Opts.SSL_VERIFYPEER = PyInt(2)
    /\ ~isdir(dirs, CA_DIR)

\* the milliseconds of a float of n ticks
Millis(n) == PyInt(Trunc(1000 * n, TicksPerSecond))

\* what C5 says of pairs and of an absent timeout
C5_PairAndAbsent ==
    /\ _timeout.type \in {"tuple", "list"} =>
          /\ Has("TIMEOUT_MS") /\ Has("CONNECTTIMEOUT_MS")
          /\ Opts.TIMEOUT_MS = Millis(_timeout.val[1].val + _timeout.val[2].val)
          /\ Opts.CONNECTTIMEOUT_MS = Millis(_timeout.val[1].val)
    /\ _timeout = None => ~Has("TIMEOUT_MS") /\ ~Has("CONNECTTIMEOUT_MS")

\* C5 (as stated): over timeouts >= 0, a pair gives TIMEOUT_MS =
\* trunc(1000 * (connect + read)) and CONNECTTIMEOUT_MS = trunc(1000 * connect),
\* every scalar gives TIMEOUT_MS = trunc(1000 * timeout) and no
\* CONNECTTIMEOUT_MS, an absent timeout gives neither.
C5_TimeoutAsStated ==
    Built =>
        /\ C5_PairAndAbsent
        /\ _timeout.type = "float" =>
              /\ Has("TIMEOUT_MS") /\ Opts.TIMEOUT_MS = Millis(_timeout.val)
              /\ ~Has("CONNECTTIMEOUT_MS")

\* C5 (amended): as stated for pairs and an absent timeout; a scalar other than
\* 0 gives TIMEOUT_MS = trunc(1000 * timeout) and no CONNECTTIMEOUT_MS, and the
\* scalar 0 gives neither directive, as an absent timeout does.
C5_Timeout ==
    Built =>
        /\ C5_PairAndAbsent
        /\ (_timeout.type = "float" /\ _timeout.val # 0) =>
              /\ Has("TIMEOUT_MS") /\ Opts.TIMEOUT_MS = Millis(_timeout.val)
              /\ ~Has("CONNECTTIMEOUT_MS")
        /\ (_timeout.type = "float" /\ _timeout.val = 0) =>
              ~Has("TIMEOUT_MS") /\ ~Has("CONNECTTIMEOUT_MS")

\* (2.0, 5.0) gives 7000 and 2000
C5_Witness ==
    /\ Built
    /\ _timeout = Tuple(<<Seconds(2), Seconds(5)>>)
    /\ Opts.TIMEOUT_MS = PyInt(7000) /\ Opts.CONNECTTIMEOUT_MS = PyInt(2000)

\* the scalar 0
C5_WitnessZero ==
    /\ Built
    /\ _timeout = Float(0)
    /\ ~Has("TIMEOUT_MS")

\* the instance as the constructor leaves it, with the inputs it has now
Fresh ==
    [Self EXCEPT !._CIPHER_LIST = None, !._curl_options = None, !._body_stream = None]
\* the inputs are those the options were derived from
SameInputs == derived_env = Tuple(<<cookies, dirs>>)

\* C6: once derived, the options are never derived again: every access returns
\* the set the first access stored; and whenever the inputs are those of the
\* first access, that set is the one a derivation without the memo gives, on
\* this instance as on a new one.
C6_Memoization ==
    /\ [](returned # None => Built /\ returned = _curl_options)
    /\ [][Built => _curl_options' = _curl_options]_vars
    /\ []((Built /\ SameInputs) =>
            /\ _build_curl_options(Self, dirs).ret = _curl_options
            /\ _build_curl_options(Fresh, dirs).ret = _curl_options)

\* an access has returned the stored set of a streamed request, the inputs
\* unchanged
C6_Witness ==
    /\ Built /\ returned = _curl_options
    /\ SameInputs
    /\ _body_stream # None /\ _CIPHER_LIST # None
    /\ cookies # Str("")

\* the cipher list as one string
CipherString ==
    Str("TLS_AES_128_GCM_SHA256,TLS_AES_256_GCM_SHA384,TLS_CHACHA20_POLY1305_SHA256,ECDHE-ECDSA-AES128-GCM-SHA256,ECDHE-RSA-AES128-GCM-SHA256,ECDHE-ECDSA-AES256-GCM-SHA384,ECDHE-RSA-AES256-GCM-SHA384,ECDHE-ECDSA-CHACHA20-POLY1305,ECDHE-RSA-CHACHA20-POLY1305,ECDHE-RSA-AES128-SHA,ECDHE-RSA-AES256-SHA,AES128-GCM-SHA256,AES256-GCM-SHA384,AES128-SHA,AES256-SHA")

\* C7: the derived options hold every static directive with its fixed value:
\* the request's url, the cipher list, HTTP/2, TLS 1.2, brotli, masp, NPN off,
\* redirects followed, the verbosity and the cookie jar location given; no
\* derivation step removes or replaces one of them.
C7_StaticDirectives ==
    Built =>
        /\ {"URL", "SSL_CIPHER_LIST", "HTTP_VERSION", "SSLVERSION", "SSL_ENABLE_ALPS",
            "SSL_CERT_COMPRESSION", "HTTP2_PSEUDO_HEADERS_ORDER", "SSL_ENABLE_NPN",
            "VERBOSE", "FOLLOWLOCATION", "COOKIEJAR"} \subseteq DOMAIN Opts
        /\ Opts.URL = _request.url
        /\ Opts.SSL_CIPHER_LIST = CipherString
        /\ Opts.HTTP_VERSION = Pycurl("CURL_HTTP_VERSION_2_0")
        /\ Opts.SSLVERSION = Pycurl("SSLVERSION_TLSv1_2")
        /\ Opts.SSL_ENABLE_ALPS = PyInt(1)
        /\ Opts.SSL_CERT_COMPRESSION = Str("brotli")
        /\ Opts.HTTP2_PSEUDO_HEADERS_ORDER = Str("masp")
        /\ Opts.SSL_ENABLE_NPN = PyInt(0)
        /\ Opts.FOLLOWLOCATION = PyInt(1)
        /\ Opts.VERBOSE = _verbose
        /\ Opts.COOKIEJAR = DerivedCookies

\* every step of the derivation has contributed: headers, upload, method,
\* timeouts, CA and certificate beside the static directives
C7_Witness ==
    /\ Built
    /\ Opts.SSL_CIPHER_LIST = CipherString
    /\ {"HTTPHEADER", "UPLOAD", "CUSTOMREQUEST", "TIMEOUT_MS", "CONNECTTIMEOUT_MS",
        "CAPATH", "SSLCERT", "SSLKEY"} \subseteq DOMAIN Opts
    /\ Len(Opts.HTTPHEADER.val) > 0

\* C8: no certificate gives neither SSLCERT nor SSLKEY; a path gives SSLCERT,
\* that path, and no SSLKEY; a (cert, key) pair gives SSLCERT = cert and
\* SSLKEY = key.
C8_Certificate ==
    Built =>
        /\ ~Truthy(_cert) => ~Has("SSLCERT") /\ ~Has("SSLKEY")
        /\ (IsString(_cert) /\ Truthy(_cert)) =>
              /\ Has("SSLCERT") /\ Opts.SSLCERT = _cert
              /\ ~Has("SSLKEY")
        /\ _cert.type = "tuple" =>
              /\ Has("SSLCERT") /\ Opts.SSLCERT = _cert.val[1]
              /\ Has("SSLKEY") /\ Opts.SSLKEY = _cert.val[2]

\* the pair of the specification's example
C8_Witness ==
    /\ Built
    /\ _cert = Tuple(<<CERT, KEY>>)
    /\ Opts.SSLCERT = Str("/a/cert.pem") /\ Opts.SSLKEY = Str("/a/key.pem")

\* what C9 says of a streamed body
C9_Streamed ==
    /\ Has("UPLOAD") /\ Has("READFUNCTION")
    /\ ~Has("POSTFIELDS")
    /\ Opts.READFUNCTION = BoundMethod(_request.body, "read")
    /\ _body_stream = _request.body

\* C9 (as stated): when the method is not HEAD and the body has a read
\* attribute, the options hold UPLOAD and READFUNCTION and no POSTFIELDS, the
\* callback is the read of the caller's own object, and the instance holds
\* that object as its stream handle from then on.
C9_StreamAsStated ==
    (Built /\ _request.method # Str(HEAD) /\ HasRead(_request.body)) => C9_Streamed

\* C9 (amended): the same, of a body with a read attribute that is truthy (an
\* object whose __len__ is 0 is taken for an absent body).
C9_Stream ==
    /\ (Built /\ _request.method # Str(HEAD) /\ HasRead(_request.body)
              /\ Truthy(_request.body)) => C9_Streamed
    /\ (Built /\ _request.method # Str(HEAD) /\ HasRead(_request.body)
              /\ ~Truthy(_request.body)) =>
          /\ ~Has("UPLOAD") /\ ~Has("READFUNCTION") /\ ~Has("POSTFIELDS")
          /\ _body_stream = None

\* a streamed file, the inputs changed after the derivation
C9_Witness ==
    /\ Built
    /\ _request.body = Object("file", 1, -1)
    /\ Has("UPLOAD") /\ Has("READFUNCTION")
    /\ Opts.READFUNCTION.val.self.val.id = 1
    /\ _body_stream.val.id = 1
    /\ ~SameInputs

\* a file-like body of length 0
C9_WitnessEmptyStream ==
    /\ Built
    /\ _request.method # Str(HEAD)
    /\ _request.body = Object("file", 2, 0)
    /\ ~Has("UPLOAD")

\* C10: UPLOAD and READFUNCTION come only with a body that has a read
\* attribute; a truthy body without one meets the third buffered condition and
\* is sent as POSTFIELDS; the stream handle is never a new BytesIO: it is unset
\* or the caller's body; and the options hold at most one of NOBODY,
\* POSTFIELDS and the pair UPLOAD, READFUNCTION.
C10_BodyOutcomes ==
    /\ _body_stream \in {None, _request.body}
    /\ _body_stream.type # "BytesIO"
    /\ Built =>
          /\ Has("UPLOAD") <=> Has("READFUNCTION")
          /\ Has("UPLOAD") => HasRead(_request.body) /\ use_chunked_upload(_request)
          /\ (_request.method # Str(HEAD) /\ Truthy(_request.body)
                /\ ~HasRead(_request.body)) =>
                /\ body_flags(_request)[3]
                /\ Has("POSTFIELDS") /\ Opts.POSTFIELDS = _request.body
          /\ ~(Has("NOBODY") /\ Has("POSTFIELDS"))
          /\ ~(Has("NOBODY") /\ Has("UPLOAD"))
          /\ ~(Has("POSTFIELDS") /\ Has("UPLOAD"))

\* multipart bytes, which only the third condition sends as POSTFIELDS
C10_Witness ==
    /\ Built
    /\ _request.body = Bytes(<<45, 45, 120>>)
    /\ body_flags(_request) = <<FALSE, FALSE, TRUE>>
    /\ Has("POSTFIELDS") /\ _body_stream = None

====
